---- MODULE Spec2Model ----
(***************************************************************************)
(* Model of the study-plan generation engine and its JSON plan store       *)
(* (src/EduTech/study_plan_generator.py).                                  *)
(*                                                                         *)
(* Representation choices:                                                 *)
(*  - the wall clock (datetime.now()) is a tick counter; TicksPerSec ticks *)
(*    make a second and SecsPerDay seconds make a day;                     *)
(*  - a "%Y-%m-%d" date string is the tuple <<year, month, day>>, a        *)
(*    plan_id "plan_%Y%m%d_%H%M%S" is <<year, month, day, second of day>>, *)
(*    an isoformat() timestamp is <<year, month, day, second, tick>>;      *)
(*  - None is the empty tuple;                                             *)
(*  - daily_hours is a float that is a whole number of eighths of an hour  *)
(*    (exactly representable in binary floating point), held as the        *)
(*    integer number of eighths;                                           *)
(*  - an allocation (hours) is an exact fraction over a common             *)
(*    denominator, so no floating-point rounding is modelled.              *)
(***************************************************************************)
EXTENDS Integers, Sequences, FiniteSets, TLC

(***************************************************************************)
(* Bounds of the model.                                                    *)
(***************************************************************************)
TicksPerSec == 2
SecsPerDay == 2
MaxTicks == 2
MaxDays == 3
MaxCalls == 3
MaxTotalDays == 30

None == << >>

Abs(x) == IF x < 0 THEN -x ELSE x
Min2(a, b) == IF a <= b THEN a ELSE b
Max2(a, b) == IF a >= b THEN a ELSE b

\* Python's int() of the float n/d (d > 0): truncation towards zero
IntTrunc(n, d) == IF n >= 0 THEN n \div d ELSE -((-n) \div d)

RECURSIVE SumSeq(_)
SumSeq(s) == IF s = << >> THEN 0 ELSE Head(s) + SumSeq(Tail(s))

SeqToSet(s) == {s[i] : i \in 1..Len(s)}

(***************************************************************************)
(* Calendar: datetime, timedelta(days=n) and strftime.                     *)
(* A datetime is its number of ticks since 1970-01-01T00:00:00.            *)
(***************************************************************************)
TicksPerDay == SecsPerDay * TicksPerSec

OrdinalOf(t) == t \div TicksPerDay
SecondOfDay(t) == (t % TicksPerDay) \div TicksPerSec
TickOfSecond(t) == t % TicksPerSec

\* timedelta(days=n) added to a datetime
AddDays(t, n) == t + n * TicksPerDay

\* proleptic Gregorian date <<y, m, d>> of a day number counted from 1970-01-01
CivilFromDays(z0) ==
    LET z   == z0 + 719468
        era == z \div 146097
        doe == z - era * 146097
        yoe == (doe - doe \div 1460 + doe \div 36524 - doe \div 146096) \div 365
        doy == doe - (365 * yoe + yoe \div 4 - yoe \div 100)
        mp  == (5 * doy + 2) \div 153
        d   == doy - (153 * mp + 2) \div 5 + 1
        m   == IF mp < 10 THEN mp + 3 ELSE mp - 9
        y   == yoe + era * 400 + (IF m <= 2 THEN 1 ELSE 0)
    IN  <<y, m, d>>

\* strftime("%Y-%m-%d")
FormatDate(t) == CivilFromDays(OrdinalOf(t))

\* strftime("plan_%Y%m%d_%H%M%S"): the sub-second part is dropped
FormatPlanId(t) == FormatDate(t) \o <<SecondOfDay(t)>>

\* isoformat(): keeps the full resolution of the clock
IsoFormat(t) == FormatDate(t) \o <<SecondOfDay(t), TickOfSecond(t)>>

IsLeap(y) == (y % 4 = 0 /\ y % 100 # 0) \/ y % 400 = 0

DaysInMonth(y, m) ==
    IF m = 2 THEN (IF IsLeap(y) THEN 29 ELSE 28)
    ELSE IF m \in {4, 6, 9, 11} THEN 30 ELSE 31

\* the calendar date that follows date <<y, m, d>>
NextCalendarDate(dt) ==
    IF dt[3] < DaysInMonth(dt[1], dt[2]) THEN <<dt[1], dt[2], dt[3] + 1>>
    ELSE IF dt[2] < 12 THEN <<dt[1], dt[2] + 1, 1>>
    ELSE <<dt[1] + 1, 1, 1>>

\* "YYYY-MM-DD" strings compare like their <<y, m, d>> tuples
DateLess(a, b) ==
    \/ a[1] < b[1]
    \/ a[1] = b[1] /\ a[2] < b[2]
    \/ a[1] = b[1] /\ a[2] = b[2] /\ a[3] < b[3]

(***************************************************************************)
(* Enumerations and lookup tables.                                         *)
(***************************************************************************)
DifficultyLevel == {"beginner", "intermediate", "advanced", "expert"}
StudyGoal == {"exam_prep", "skill_building", "quick_review", "deep_mastery"}
TimePreference == {"morning", "afternoon", "evening", "night", "flexible"}

study_techniques ==
    [beginner     |-> <<"Active Reading", "Note Taking", "Flashcards", "Summary Writing">>,
     intermediate |-> <<"Feynman Technique", "Mind Mapping", "Practice Problems", "Peer Discussion">>,
     advanced     |-> <<"Deep Work Sessions", "Research Papers", "Project-Based Learning", "Teaching Others">>,
     expert       |-> <<"Original Research", "Advanced Problem Solving", "Critical Analysis", "Innovation Projects">>]

\* dict.get(key, default) on a dict held as a function
Get(dict, key, default) == IF key \in DOMAIN dict THEN dict[key] ELSE default

\* s[:n]
Prefix(s, n) == SubSeq(s, 1, Min2(n, Len(s)))

\* the keys of a dict filled by iterating a list: first occurrences, in order
RECURSIVE DictKeys(_)
DictKeys(s) ==
    IF s = << >> THEN << >>
    ELSE LET init == DictKeys(SubSeq(s, 1, Len(s) - 1))
             x    == s[Len(s)]
         IN  IF x \in SeqToSet(init) THEN init ELSE Append(init, x)

(***************************************************************************)
(* _calculate_topic_allocation                                             *)
(* Weights are held times 20 (1.5 = 3/2, 1.3 = 13/10), daily_hours in      *)
(* eighths; allocation[topic] is the fraction num[topic] / den hours.      *)
(***************************************************************************)
\* mutant: a weak area counts double
WeakBoostDouble(topic, weak_areas) == IF topic \in SeqToSet(weak_areas) THEN 4 ELSE 2

\* weak_boost * 2
WeakBoost2(topic, weak_areas) == IF topic \in SeqToSet(weak_areas) THEN 3 ELSE 2

SpacedBoost10(knowledge) == IF 30 <= knowledge /\ knowledge <= 70 THEN 13 ELSE 10

\* weights[topic] * 20
Weight20(topic, current_knowledge, weak_areas) ==
    LET knowledge == Get(current_knowledge, topic, 0)
        base_weight == 100 - knowledge
    IN  base_weight * WeakBoost2(topic, weak_areas) * SpacedBoost10(knowledge)

\* mutant: the weights are summed over the topic list, not over the dict
TotalWeight20OverList(topics, current_knowledge, weak_areas) ==
    SumSeq([i \in 1..Len(topics) |-> Weight20(topics[i], current_knowledge, weak_areas)])

\* sum(weights.values()) * 20
TotalWeight20(topics, current_knowledge, weak_areas) ==
    LET keys == DictKeys(topics)
    IN  SumSeq([i \in 1..Len(keys) |-> Weight20(keys[i], current_knowledge, weak_areas)])

\* the result: raised is the exception that leaves the function ("" for none)
CalculateTopicAllocation(topics, total_days, daily_hours8, current_knowledge, weak_areas) ==
    LET keys == DictKeys(topics)
        total_weight == TotalWeight20(topics, current_knowledge, weak_areas)
    IN  IF keys # << >> /\ total_weight = 0
        THEN [raised |-> "ZeroDivisionError", num |-> << >>, den |-> 1]
        ELSE [raised |-> "",
              num |-> [t \in SeqToSet(keys) |->
                          Weight20(t, current_knowledge, weak_areas) * total_days * daily_hours8],
              den |-> IF keys = << >> THEN 1 ELSE total_weight * 8]

(***************************************************************************)
(* _select_topic_for_day                                                   *)
(***************************************************************************)
optimal_intervals == <<1, 3, 7, 14, 30>>

SpacedScore(days_since, count) ==
    IF count = 0 THEN 1000
    ELSE LET dists == {Abs(days_since - optimal_intervals[i]) : i \in 1..Len(optimal_intervals)}
             closest == CHOOSE d \in dists : \A e \in dists : d <= e
         IN  100 - closest

\* scores[topic] * 10 * den, for an allocation num[topic] / den (den > 0):
\* 10 * score = 4 * (allocation - 1.5 * count) + 4 * spaced_score + 2 * days_since
ScoreNum(topic, allocation, day, last_studied, study_count) ==
    LET days_since == day - last_studied[topic]
        count == study_count[topic]
    IN  4 * allocation.num[topic]
        + allocation.den * (4 * SpacedScore(days_since, count) + 2 * days_since - 6 * count)

\* mutant: among the topics of maximal score the last one wins
SelectTopicForDayLastMax(topics, allocation, day, last_studied, study_count) ==
    LET keys == DictKeys(topics)
        sc(i) == ScoreNum(keys[i], allocation, day, last_studied, study_count)
    IN  IF keys = << >> THEN [raised |-> "ValueError", topic |-> ""]
        ELSE LET best == CHOOSE i \in 1..Len(keys) :
                            /\ \A j \in 1..Len(keys) : sc(j) <= sc(i)
                            /\ \A j \in (i + 1)..Len(keys) : sc(j) < sc(i)
             IN  [raised |-> "", topic |-> keys[best]]

\* max(scores, key=scores.get): the first key, in insertion order, of maximal score;
\* ValueError on an empty dict
SelectTopicForDay(topics, allocation, day, last_studied, study_count) ==
    LET keys == DictKeys(topics)
        sc(i) == ScoreNum(keys[i], allocation, day, last_studied, study_count)
    IN  IF keys = << >> THEN [raised |-> "ValueError", topic |-> ""]
        ELSE LET best == CHOOSE i \in 1..Len(keys) :
                            /\ \A j \in 1..Len(keys) : sc(j) <= sc(i)
                            /\ \A j \in 1..(i - 1) : sc(j) < sc(i)
             IN  [raised |-> "", topic |-> keys[best]]

(***************************************************************************)
(* _get_optimal_time_slot: "HH:00 - HH:00" is <<start hour, end hour>>     *)
(***************************************************************************)
flexible_slots == <<7, 14, 18>>

\* mutant: the flexible slots rotate through 9, 14 and 18 o'clock
GetOptimalTimeSlotFlexible9(preference, day, hours8) ==
    LET h == IntTrunc(hours8, 8)
    IN  IF preference = "morning" THEN <<6, 6 + h>>
        ELSE IF preference = "afternoon" THEN <<14, 14 + h>>
        ELSE IF preference = "evening" THEN <<18, 18 + h>>
        ELSE IF preference = "night" THEN <<21, 21 + h>>
        ELSE LET start == <<9, 14, 18>>[(day % 3) + 1]
             IN  <<start, start + h>>

GetOptimalTimeSlot(preference, day, hours8) ==
    LET h == IntTrunc(hours8, 8)
    IN  IF preference = "morning" THEN <<6, 6 + h>>
        ELSE IF preference = "afternoon" THEN <<14, 14 + h>>
        ELSE IF preference = "evening" THEN <<18, 18 + h>>
        ELSE IF preference = "night" THEN <<21, 21 + h>>
        ELSE LET start == flexible_slots[(day % Len(flexible_slots)) + 1]
             IN  <<start, start + h>>

(***************************************************************************)
(* _calculate_breaks                                                       *)
(***************************************************************************)
pomodoro_cycle == 25
short_break == 5
long_break == 15

\* mutant: the break does not advance elapsed
BreaksIterationWorkOnly(st, duration_minutes) ==
    LET work_time == Min2(pomodoro_cycle, duration_minutes - st.elapsed)
        elapsed1 == st.elapsed + work_time
        completed1 == st.completed_pomodoros + 1
        break_time == IF completed1 % 4 = 0 THEN long_break ELSE short_break
    IN  [elapsed |-> elapsed1,
         completed_pomodoros |-> completed1,
         breaks |-> IF elapsed1 < duration_minutes
                    THEN Append(st.breaks,
                                [after_minutes |-> elapsed1,
                                 duration_minutes |-> break_time,
                                 type |-> IF break_time = long_break THEN "long" ELSE "short"])
                    ELSE st.breaks]

\* mutant: the long break is decided before the block is counted
BreaksIterationCountLate(st, duration_minutes) ==
    LET work_time == Min2(pomodoro_cycle, duration_minutes - st.elapsed)
        elapsed1 == st.elapsed + work_time
        completed1 == st.completed_pomodoros + 1
        break_time == IF st.completed_pomodoros % 4 = 0 THEN long_break ELSE short_break
    IN  IF elapsed1 < duration_minutes
        THEN [elapsed |-> elapsed1 + break_time,
              completed_pomodoros |-> completed1,
              breaks |-> Append(st.breaks,
                                [after_minutes |-> elapsed1,
                                 duration_minutes |-> break_time,
                                 type |-> IF break_time = long_break THEN "long" ELSE "short"])]
        ELSE [elapsed |-> elapsed1, completed_pomodoros |-> completed1, breaks |-> st.breaks]

\* one iteration of the while loop (its guard, elapsed < duration, holds)
BreaksIteration(st, duration_minutes) ==
    LET work_time == Min2(pomodoro_cycle, duration_minutes - st.elapsed)
        elapsed1 == st.elapsed + work_time
        completed1 == st.completed_pomodoros + 1
        break_time == IF completed1 % 4 = 0 THEN long_break ELSE short_break
    IN  IF elapsed1 < duration_minutes
        THEN [elapsed |-> elapsed1 + break_time,
              completed_pomodoros |-> completed1,
              breaks |-> Append(st.breaks,
                                [after_minutes |-> elapsed1,
                                 duration_minutes |-> break_time,
                                 type |-> IF break_time = long_break THEN "long" ELSE "short"])]
        ELSE [elapsed |-> elapsed1, completed_pomodoros |-> completed1, breaks |-> st.breaks]

RECURSIVE BreaksLoop(_, _)
BreaksLoop(st, duration_minutes) ==
    IF st.elapsed < duration_minutes
    THEN BreaksLoop(BreaksIteration(st, duration_minutes), duration_minutes)
    ELSE st

CalculateBreaks(duration_minutes) ==
    BreaksLoop([elapsed |-> 0, completed_pomodoros |-> 0, breaks |-> << >>],
               duration_minutes).breaks

(***************************************************************************)
(* _get_session_difficulty                                                 *)
(***************************************************************************)
difficulties == <<"beginner", "intermediate", "advanced", "expert">>

\* list.index, 0-based
IndexOf(s, x) == (CHOOSE i \in 1..Len(s) : s[i] = x) - 1

\* mutant: <= for <
RatioBelowOrEqual(day, total_days, p) == 100 * day <= p * total_days

\* day / total_days < p / 100, for total_days > 0
RatioBelow(day, total_days, p) == 100 * day < p * total_days

GetSessionDifficulty(base_difficulty, day, total_days) ==
    LET base_idx == IndexOf(difficulties, base_difficulty)
    IN  IF RatioBelow(day, total_days, 30)
        THEN difficulties[Max2(0, base_idx - 1) + 1]
        ELSE IF RatioBelow(day, total_days, 60)
        THEN difficulties[base_idx + 1]
        ELSE IF RatioBelow(day, total_days, 85)
        THEN difficulties[Min2(Len(difficulties) - 1, base_idx + 1) + 1]
        ELSE difficulties[Min2(Len(difficulties) - 1, base_idx + 1) + 1]

(***************************************************************************)
(* Template lookups of the session composer                                *)
(***************************************************************************)
style_techniques ==
    [visual      |-> <<"Diagrams", "Color Coding", "Video Tutorials">>,
     auditory    |-> <<"Podcasts", "Discussions", "Read Aloud">>,
     kinesthetic |-> <<"Hands-on Practice", "Real Projects", "Lab Work">>,
     reading     |-> <<"Textbooks", "Articles", "Documentation">>]

SelectStudyTechniques(difficulty, learning_style, day) ==
    LET base_techniques == Get(study_techniques, difficulty, study_techniques["intermediate"])
    IN  Prefix(base_techniques, 2) \o Prefix(Get(style_techniques, learning_style, << >>), 1)

\* an f-string "{topic} - {suffix}" is the pair <<topic, suffix>>
GenerateSubtopics(topic, day, goal) ==
    IF goal = "exam_prep"
    THEN <<<<topic, "Core Concepts">>, <<topic, "Practice Problems">>, <<topic, "Common Mistakes">>>>
    ELSE IF goal = "deep_mastery"
    THEN <<<<topic, "Theoretical Foundation">>, <<topic, "Advanced Applications">>,
           <<topic, "Research & Innovation">>>>
    ELSE IF goal = "quick_review"
    THEN <<<<topic, "Key Points Review">>, <<topic, "Quick Quiz">>>>
    ELSE <<<<topic, "Introduction">>, <<topic, "Practice">>, <<topic, "Application">>>>

GenerateSessionGoals(topic, subtopics, goal) ==
    <<<<"Understand core concepts of", topic>>,
      <<"Complete exercises on">> \o subtopics[1],
      <<"Achieve 80%+ on practice quiz", "">>>>

learning_resources ==
    [visual      |-> <<"YouTube tutorials", "Infographics", "Interactive simulations">>,
     auditory    |-> <<"Podcasts", "Audio lectures", "Study group discussions">>,
     kinesthetic |-> <<"Hands-on projects", "Lab exercises", "Real-world applications">>,
     reading     |-> <<"Textbook chapters", "Research papers", "Online documentation">>]

GetLearningResources(topic, learning_style) ==
    Get(learning_resources, learning_style, learning_resources["visual"])

\* int(time_slot.split(":")[0])
ParseStartHour(time_slot) == time_slot[1]

\* mutant: fatigue sets in on day 20
EstimateFocusLevelFatigueFrom20(time_slot, day) ==
    LET hour == ParseStartHour(time_slot)
        focus == IF (9 <= hour /\ hour <= 11) \/ (15 <= hour /\ hour <= 17) THEN "High"
                 ELSE IF \/ (6 <= hour /\ hour <= 9)
                         \/ (11 <= hour /\ hour <= 15)
                         \/ (17 <= hour /\ hour <= 20) THEN "Medium"
                 ELSE "Low"
    IN  IF day >= 20 /\ focus = "High" THEN "Medium-High" ELSE focus

EstimateFocusLevel(time_slot, day) ==
    LET hour == ParseStartHour(time_slot)
        focus == IF (9 <= hour /\ hour <= 11) \/ (15 <= hour /\ hour <= 17) THEN "High"
                 ELSE IF \/ (6 <= hour /\ hour <= 9)
                         \/ (11 <= hour /\ hour <= 15)
                         \/ (17 <= hour /\ hour <= 20) THEN "Medium"
                 ELSE "Low"
    IN  IF day > 20 /\ focus = "High" THEN "Medium-High" ELSE focus

GetPreSessionPrep(day, topic) ==
    LET preps == <<<<"Review notes from previous session", topic>>,
                   <<"Set up study environment (minimize distractions)", "">>,
                   <<"Gather all materials and resources", "">>,
                   <<"Do a 5-minute breathing exercise to focus", "">>,
                   <<"Set specific goals for this session", "">>>>
    IN  preps[(day % Len(preps)) + 1]

GetPostSessionReview(day, topic) ==
    LET reviews == <<"Summarize key learnings in your own words",
                     "Create flashcards for important concepts",
                     "Teach the concept to someone else (Feynman Technique)",
                     "Identify 3 things you learned and 1 question you still have",
                     "Update your study notes with new insights">>
    IN  reviews[(day % Len(reviews)) + 1]

(***************************************************************************)
(* _create_milestones                                                      *)
(***************************************************************************)
milestone_names ==
    <<"Foundation Complete", "Halfway Champion", "Advanced Mastery", "Goal Achieved">>

\* mutant: the fractions are rounded to the nearest day
MilestoneDaysRounded(total_days) ==
    <<(total_days + 2) \div 4, (total_days + 1) \div 2, (3 * total_days + 2) \div 4, total_days>>

\* int(total_days * 0.25), int(total_days * 0.5), int(total_days * 0.75), total_days
MilestoneDays(total_days) ==
    <<IntTrunc(total_days, 4), IntTrunc(total_days, 2), IntTrunc(3 * total_days, 4), total_days>>

CreateMilestones(topics, total_days, goal) ==
    LET milestone_days == MilestoneDays(total_days)
    IN  [i \in 1..Len(milestone_days) |->
            [day |-> milestone_days[i],
             name |-> milestone_names[i],
             description |-> <<"Complete % of study plan", i * 25>>,
             celebration |-> "Take a day to review and celebrate your progress!"]]

(***************************************************************************)
(* _generate_recommendations, _generate_motivational_tips                  *)
(***************************************************************************)
GenerateRecommendations(difficulty, goal, daily_hours8, learning_style) ==
    (IF daily_hours8 < 2 * 8 THEN <<<<"Consider increasing study time", "">>>> ELSE << >>)
    \o (IF difficulty = "beginner" THEN <<<<"Start with foundational concepts", "">>>> ELSE << >>)
    \o (IF goal = "exam_prep" THEN <<<<"Focus on practice tests", "">>>> ELSE << >>)
    \o <<<<"Your learning style works best with interactive resources", learning_style>>,
         <<"Use spaced repetition", "">>,
         <<"Take breaks every 25-30 minutes", "">>>>

GenerateMotivationalTips(total_days, goal) ==
    <<"Every expert was once a beginner", "Consistency beats intensity",
      "Focus on progress, not perfection", "Your future self will thank you",
      "Difficult roads often lead to beautiful destinations",
      "Learning is a journey, not a destination",
      "Small daily improvements lead to stunning results",
      "You're investing in the best asset - yourself!">>

(***************************************************************************)
(* State.                                                                  *)
(***************************************************************************)
VARIABLES
    clock,              \* datetime.now(), in ticks
    pc,                 \* where generate_plan stands: idle, allocate, sessions,
                        \* day_loop, weekly, done (returned), raised (exception)
    args,               \* the arguments of the running generate_plan call
    plan_id,            \* generate_plan's local plan_id
    topic_allocation,   \* the result of _calculate_topic_allocation
    start_date,         \* _generate_sessions: start_date
    day,                \* _generate_sessions: the loop variable (0-based)
    sessions,           \* _generate_sessions: sessions
    topic_last_studied, \* _generate_sessions: topic_last_studied
    topic_study_count,  \* _generate_sessions: topic_study_count
    milestones,         \* generate_plan: milestones
    week,               \* _generate_weekly_reviews: week
    weekly_reviews,     \* _generate_weekly_reviews: reviews
    raised,             \* the exception that left generate_plan ("" for none)
    plan,               \* the StudyPlan last returned to the caller (None before)
    file_exists,        \* state.json exists
    study_plans,        \* the "study_plans" list of state.json
    call,               \* the last call on the store and what it returned
    calls,              \* number of generate_plan and update_session_progress calls made
    current_plan,       \* the application: st.session_state.current_plan
    view_mode,          \* the application: st.session_state.view_mode
    app_pc              \* the application: "ready", or "creating" inside the Generate handler

genVars == <<pc, args, plan_id, topic_allocation, start_date, day, sessions,
             topic_last_studied, topic_study_count, milestones, week, weekly_reviews,
             raised, plan>>
loopVars == <<start_date, day, sessions, topic_last_studied, topic_study_count>>
storeVars == <<file_exists, study_plans, call>>
appVars == <<current_plan, view_mode, app_pc>>
vars == <<clock, calls, genVars, storeVars, appVars>>

(***************************************************************************)
(* The clock starts shortly before midnight of a day before a month or     *)
(* year boundary and advances by at most MaxTicks ticks.                   *)
(***************************************************************************)
StartOrdinals == {19722, 19781}     \* 2023-12-31 and 2024-02-28

StartInstants == {(o + 1) * TicksPerDay - 2 : o \in StartOrdinals}

Tick ==
    /\ \E s \in StartInstants : s <= clock /\ clock < s + MaxTicks
    /\ clock' = clock + 1
    /\ UNCHANGED <<calls, genVars, storeVars>>

(***************************************************************************)
(* The dataclasses.  An instance carries its class; asdict() yields the    *)
(* plain dict of its fields.                                               *)
(***************************************************************************)
\* mutant: completed defaults to True
StudySessionCompleted(date, time_slot, duration_minutes, topic, subtopics, difficulty, techniques, breaks, resources, goals, pre_prep, post_review, focus_level) ==
    [class |-> "StudySession",
     date |-> date,
     time_slot |-> time_slot,
     duration_minutes |-> duration_minutes,
     topic |-> topic,
     subtopics |-> subtopics,
     difficulty |-> difficulty,
     study_techniques |-> techniques,
     breaks |-> breaks,
     resources |-> resources,
     goals |-> goals,
     pre_session_prep |-> pre_prep,
     post_session_review |-> post_review,
     estimated_focus_level |-> focus_level,
     completed |-> TRUE,
     notes |-> "",
     completed_at |-> None]

StudySession(date, time_slot, duration_minutes, topic, subtopics, difficulty, techniques, breaks, resources, goals, pre_prep, post_review, focus_level) ==
    [class |-> "StudySession",
     date |-> date,
     time_slot |-> time_slot,
     duration_minutes |-> duration_minutes,
     topic |-> topic,
     subtopics |-> subtopics,
     difficulty |-> difficulty,
     study_techniques |-> techniques,
     breaks |-> breaks,
     resources |-> resources,
     goals |-> goals,
     pre_session_prep |-> pre_prep,
     post_session_review |-> post_review,
     estimated_focus_level |-> focus_level,
     completed |-> FALSE,
     notes |-> "",
     completed_at |-> None]

StudyPlan(id, created_at, a, sess, miles, reviews, recommendations, tips) ==
    [class |-> "StudyPlan",
     plan_id |-> id,
     created_at |-> created_at,
     subject |-> a.subject,
     goal |-> a.goal,
     exam_date |-> a.exam_date,
     total_days |-> a.total_days,
     daily_hours |-> a.daily_hours8,
     difficulty_level |-> a.difficulty,
     sessions |-> sess,
     milestones |-> miles,
     weekly_reviews |-> reviews,
     adaptive_recommendations |-> recommendations,
     motivational_tips |-> tips]

(***************************************************************************)
(* generate_plan, one step per call that reads the clock or can raise.     *)
(***************************************************************************)
\* the defaults of current_knowledge and weak_areas
\* (None, the empty dict and the empty list are all the empty tuple)
WithDefaults(a) ==
    [a EXCEPT !.current_knowledge =
                  IF a.current_knowledge = None
                  THEN [t \in SeqToSet(a.topics) |-> 0]
                  ELSE a.current_knowledge,
              !.weak_areas = IF a.weak_areas = None THEN << >> ELSE a.weak_areas]

GenerateBegin(a) ==
    /\ pc \in {"idle", "done", "raised"}
    /\ pc' = "allocate"
    /\ args' = WithDefaults(a)
    /\ plan_id' = FormatPlanId(clock)
    /\ calls' = calls + 1
    /\ raised' = ""
    /\ topic_allocation' = None
    /\ start_date' = 0
    /\ day' = 0
    /\ sessions' = << >>
    /\ topic_last_studied' = << >>
    /\ topic_study_count' = << >>
    /\ milestones' = << >>
    /\ week' = 0
    /\ weekly_reviews' = << >>
    /\ UNCHANGED <<clock, plan, storeVars>>

Allocate ==
    /\ pc = "allocate"
    /\ LET r == CalculateTopicAllocation(args.topics, args.total_days, args.daily_hours8,
                                         args.current_knowledge, args.weak_areas)
       IN  IF r.raised # ""
           THEN /\ pc' = "raised"
                /\ raised' = r.raised
                /\ UNCHANGED topic_allocation
           ELSE /\ pc' = "sessions"
                /\ topic_allocation' = r
                /\ UNCHANGED raised
    /\ UNCHANGED <<clock, args, plan_id, loopVars, milestones, week, weekly_reviews,
                   plan, calls, storeVars>>

BeginSessions ==
    /\ pc = "sessions"
    /\ pc' = "day_loop"
    /\ sessions' = << >>
    /\ start_date' = clock
    /\ topic_last_studied' = [t \in SeqToSet(args.topics) |-> -999]
    /\ topic_study_count' = [t \in SeqToSet(args.topics) |-> 0]
    /\ day' = 0
    /\ UNCHANGED <<clock, args, plan_id, topic_allocation, milestones, week, weekly_reviews,
                   raised, plan, calls, storeVars>>

\* mutant: the 1-based day number is added
CurrentDateOneBased(start, d) == AddDays(start, d + 1)

\* current_date of the loop iteration for `day` (0-based)
CurrentDate(start, d) == AddDays(start, d)

\* duration = int(daily_hours * 60)
SessionDuration(daily_hours8) == IntTrunc(daily_hours8 * 60, 8)

\* the body of the day loop after the topic is selected
ComposeSession(a, topic, day_number, current_date) ==
    LET time_slot == GetOptimalTimeSlot(a.time_preference, day_number, a.daily_hours8)
        duration == SessionDuration(a.daily_hours8)
        breaks == IF a.breaks_enabled THEN CalculateBreaks(duration) ELSE << >>
        session_difficulty == GetSessionDifficulty(a.difficulty, day_number, a.total_days)
        techniques == SelectStudyTechniques(session_difficulty, a.learning_style, day_number)
        subtopics == GenerateSubtopics(topic, day_number, a.goal)
        goals == GenerateSessionGoals(topic, subtopics, a.goal)
        resources == GetLearningResources(topic, a.learning_style)
        focus_level == EstimateFocusLevel(time_slot, day_number)
        pre_prep == GetPreSessionPrep(day_number, topic)
        post_review == GetPostSessionReview(day_number, topic)
    IN  StudySession(FormatDate(current_date), time_slot, duration, topic, subtopics,
                     session_difficulty, techniques, breaks, resources, goals,
                     pre_prep, post_review, focus_level)

\* mutant: the study count of the chosen topic is not increased
DayIterationStaleCount ==
    /\ pc = "day_loop"
    /\ day < args.total_days
    /\ LET day_number == day + 1
           sel == SelectTopicForDay(args.topics, topic_allocation, day_number,
                                    topic_last_studied, topic_study_count)
       IN  IF sel.raised # ""
           THEN /\ pc' = "raised"
                /\ raised' = sel.raised
                /\ UNCHANGED loopVars
           ELSE /\ sessions' = Append(sessions,
                        ComposeSession(args, sel.topic, day_number, CurrentDate(start_date, day)))
                /\ topic_last_studied' = [topic_last_studied EXCEPT ![sel.topic] = day_number]
                /\ topic_study_count' = topic_study_count
                /\ day' = day + 1
                /\ UNCHANGED <<pc, raised, start_date>>
    /\ UNCHANGED <<clock, args, plan_id, topic_allocation, milestones, week, weekly_reviews,
                   plan, calls, storeVars>>

\* one iteration of the day loop
DayIteration ==
    /\ pc = "day_loop"
    /\ day < args.total_days
    /\ LET day_number == day + 1
           sel == SelectTopicForDay(args.topics, topic_allocation, day_number,
                                    topic_last_studied, topic_study_count)
       IN  IF sel.raised # ""
           THEN /\ pc' = "raised"
                /\ raised' = sel.raised
                /\ UNCHANGED loopVars
           ELSE /\ sessions' = Append(sessions,
                        ComposeSession(args, sel.topic, day_number, CurrentDate(start_date, day)))
                /\ topic_last_studied' = [topic_last_studied EXCEPT ![sel.topic] = day_number]
                /\ topic_study_count' = [topic_study_count EXCEPT ![sel.topic] = @ + 1]
                /\ day' = day + 1
                /\ UNCHANGED <<pc, raised, start_date>>
    /\ UNCHANGED <<clock, args, plan_id, topic_allocation, milestones, week, weekly_reviews,
                   plan, calls, storeVars>>

EndSessions ==
    /\ pc = "day_loop"
    /\ day >= args.total_days
    /\ pc' = "weekly"
    /\ milestones' = CreateMilestones(args.topics, args.total_days, args.goal)
    /\ week' = 7
    /\ weekly_reviews' = << >>
    /\ UNCHANGED <<clock, args, plan_id, topic_allocation, loopVars, raised, plan,
                   calls, storeVars>>

\* f"Week {week // 7} Review - {date}" is <<week // 7, date>>
WeeklyReview(now, w) == <<w \div 7, FormatDate(AddDays(now, w))>>

WeeklyIteration ==
    /\ pc = "weekly"
    /\ week <= args.total_days
    /\ weekly_reviews' = Append(weekly_reviews, WeeklyReview(clock, week))
    /\ week' = week + 7
    /\ UNCHANGED <<clock, pc, args, plan_id, topic_allocation, loopVars, milestones, raised,
                   plan, calls, storeVars>>

Finish ==
    /\ pc = "weekly"
    /\ week > args.total_days
    /\ pc' = "done"
    /\ plan' = StudyPlan(plan_id, IsoFormat(clock), args, sessions, milestones, weekly_reviews,
                         GenerateRecommendations(args.difficulty, args.goal,
                                                 args.daily_hours8, args.learning_style),
                         GenerateMotivationalTips(args.total_days, args.goal))
    /\ UNCHANGED <<clock, args, plan_id, topic_allocation, loopVars, milestones, week,
                   weekly_reviews, raised, calls, storeVars>>

\* in a plan of less than a week the body of the weekly loop never runs
GenerateShort == Allocate \/ BeginSessions \/ DayIteration \/ EndSessions \/ Finish

Generate == GenerateShort \/ WeeklyIteration

(***************************************************************************)
(* The plan store, state.json.  json.dump followed by json.load returns    *)
(* the dicts, lists, strings, numbers and None written, so the file is     *)
(* held as the value of its "study_plans" list.                            *)
(***************************************************************************)
\* asdict() of a dataclass instance without nested instances
FieldsOf(obj) == [f \in DOMAIN obj \ {"class"} |-> obj[f]]

\* asdict(plan): the nested StudySession instances become dicts too
AsDict(p) ==
    [f \in DOMAIN p \ {"class"} |->
        IF f = "sessions" THEN [i \in 1..Len(p.sessions) |-> FieldsOf(p.sessions[i])]
        ELSE p[f]]

\* StudySession(**s), StudyPlan(**plan_dict)
Construct(cls, dict) ==
    [f \in DOMAIN dict \cup {"class"} |-> IF f = "class" THEN cls ELSE dict[f]]

\* mutant: the sessions stay dicts
PlanFromDictFlat(plan_dict) == Construct("StudyPlan", plan_dict)

\* load_plan: the StudyPlan rebuilt from a stored dict
PlanFromDict(plan_dict) ==
    LET rebuilt == [i \in 1..Len(plan_dict.sessions) |->
                        Construct("StudySession", plan_dict.sessions[i])]
    IN  Construct("StudyPlan", [plan_dict EXCEPT !.sessions = rebuilt])

\* mutant: no stored plan is ever matched
FindPlanNever(plans, id) == 0

\* index of the first stored plan with this plan_id, 0 when there is none
FindPlan(plans, id) ==
    IF \E i \in 1..Len(plans) : plans[i].plan_id = id
    THEN CHOOSE i \in 1..Len(plans) :
            /\ plans[i].plan_id = id
            /\ \A j \in 1..(i - 1) : plans[j].plan_id # id
    ELSE 0

\* index of the first session with this date, 0 when there is none
FindSession(sess, date) ==
    IF \E i \in 1..Len(sess) : sess[i].date = date
    THEN CHOOSE i \in 1..Len(sess) :
            /\ sess[i].date = date
            /\ \A j \in 1..(i - 1) : sess[j].date # date
    ELSE 0

\* save_plan: data["study_plans"] after "Add or update plan"
Upsert(plans, p) ==
    LET existing_idx == FindPlan(plans, p.plan_id)
    IN  IF existing_idx # 0 THEN [plans EXCEPT ![existing_idx] = AsDict(p)]
        ELSE Append(plans, AsDict(p))

SavePlan(p) ==
    /\ pc \in {"idle", "done", "raised"}
    /\ study_plans' = Upsert(study_plans, p)
    /\ file_exists' = TRUE
    /\ call' = [op |-> "save_plan", plan |-> p, ret |-> TRUE]
    /\ UNCHANGED <<clock, calls, genVars>>

LoadPlan(id) ==
    /\ pc \in {"idle", "done", "raised"}
    /\ LET idx == FindPlan(study_plans, id)
       IN  call' = [op |-> "load_plan",
                    ret |-> IF file_exists /\ idx # 0
                            THEN PlanFromDict(study_plans[idx]) ELSE None]
    /\ UNCHANGED <<clock, calls, genVars, file_exists, study_plans>>

\* mutant: the notes are not stored
MarkSessionNoNotes(session, completed, notes, now) ==
    [session EXCEPT !.completed = completed, !.completed_at = IsoFormat(now)]

\* the three assignments to the matched session
MarkSession(session, completed, notes, now) ==
    [session EXCEPT !.completed = completed,
                    !.notes = notes,
                    !.completed_at = IsoFormat(now)]

\* update_session_progress: data["study_plans"] after the two loops
UpdatedPlans(plans, id, session_date, completed, notes, now) ==
    LET i == FindPlan(plans, id)
        j == IF i = 0 THEN 0 ELSE FindSession(plans[i].sessions, session_date)
    IN  IF j = 0 THEN plans
        ELSE [plans EXCEPT ![i].sessions[j] = MarkSession(@, completed, notes, now)]

\* the except branch (no state.json) returns False, every other path True
UpdateSessionProgress(id, session_date, completed, notes) ==
    /\ pc \in {"idle", "done", "raised"}
    /\ IF file_exists
       THEN /\ study_plans' = UpdatedPlans(study_plans, id, session_date, completed, notes, clock)
            /\ call' = [op |-> "update_session_progress", ret |-> TRUE]
       ELSE /\ UNCHANGED study_plans
            /\ call' = [op |-> "update_session_progress", ret |-> FALSE]
    /\ calls' = calls + 1
    /\ UNCHANGED <<clock, genVars, file_exists>>

(***************************************************************************)
(* Arguments of generate_plan.                                             *)
(***************************************************************************)
BaseArgs ==
    [subject |-> "Machine Learning",
     topics |-> <<"A", "B">>,
     goal |-> "exam_prep",
     difficulty |-> "intermediate",
     total_days |-> 2,
     daily_hours8 |-> 12,
     exam_date |-> None,
     time_preference |-> "flexible",
     learning_style |-> "visual",
     current_knowledge |-> None,
     weak_areas |-> None,
     breaks_enabled |-> TRUE]

TopicLists == {<< >>, <<"A">>, <<"A", "B">>, <<"B", "A", "B">>}

KnowledgeMaps ==
    {None, "A" :> 100, "A" :> 100 @@ "B" :> 100, "A" :> 40 @@ "B" :> 100,
     "A" :> 30 @@ "B" :> 70}

\* total_days: every value up to MaxDays, and one week
TotalDaysChoices == (-1..MaxDays) \cup {7}

\* daily_hours in eighths: -0.5, 0, 0.125, 0.5, 1.5 and 2.5 hours
DailyHours8Choices == {-4, 0, 1, 4, 12, 20}

\* what the topic list, the knowledge and the number of days decide
TopicArgs ==
    {[BaseArgs EXCEPT !.topics = t, !.current_knowledge = k, !.weak_areas = w,
                      !.total_days = n] :
        t \in TopicLists, k \in KnowledgeMaps, w \in {None, <<"B">>},
        n \in TotalDaysChoices}

\* arguments the specification calls invalid
InvalidArgs ==
    {[BaseArgs EXCEPT !.topics = t, !.total_days = n, !.daily_hours8 = h] :
        t \in {<< >>, <<"A", "B">>}, n \in {-1, 0, MaxDays}, h \in {-4, 0, 12}}

\* what the session composer decides
ComposerArgs ==
    {[BaseArgs EXCEPT !.difficulty = d, !.time_preference = p, !.total_days = MaxDays,
                      !.daily_hours8 = h] :
        d \in DifficultyLevel, p \in TimePreference, h \in DailyHours8Choices \ {-4, 0}}
    \cup
    {[BaseArgs EXCEPT !.learning_style = l, !.goal = g, !.breaks_enabled = b,
                      !.exam_date = e] :
        l \in {"visual", "reading", "other"}, g \in StudyGoal,
        b \in BOOLEAN, e \in {None, <<2024, 3, 1>>}}
    \cup
    {[BaseArgs EXCEPT !.time_preference = p, !.total_days = MaxTotalDays, !.daily_hours8 = 4] :
        p \in TimePreference}

GenArgs == TopicArgs \cup InvalidArgs \cup ComposerArgs

(***************************************************************************)
(* One generate_plan call on arguments of GenArgs.                         *)
(***************************************************************************)
InitAt(instants) ==
    /\ clock \in instants
    /\ pc = "idle"
    /\ args = BaseArgs
    /\ plan_id = None
    /\ topic_allocation = None
    /\ start_date = 0
    /\ day = 0
    /\ sessions = << >>
    /\ topic_last_studied = << >>
    /\ topic_study_count = << >>
    /\ milestones = << >>
    /\ week = 0
    /\ weekly_reviews = << >>
    /\ raised = ""
    /\ plan = None
    /\ calls = 0
    /\ file_exists = FALSE
    /\ study_plans = << >>
    /\ call = [op |-> "none"]
    /\ current_plan = None
    /\ view_mode = "create"
    /\ app_pc = "ready"

InitGen == InitAt(StartInstants)

NextGen ==
    \/ calls = 0 /\ (\E a \in GenArgs : GenerateBegin(a)) /\ UNCHANGED appVars
    \/ Generate /\ UNCHANGED appVars
    \/ Tick /\ UNCHANGED appVars

SpecGen == InitGen /\ [][NextGen]_vars

\* the plans the form of the application offers: 7 to 180 days, up to 8.0 hours a day
slider_min_days == 7
slider_max_days == 180
slider_max_hours8 == 64

(***************************************************************************)
(* The generator and the store used by one caller: plans are generated,    *)
(* saved, loaded, saved again and their sessions updated.                  *)
(***************************************************************************)
\* plans of less than a week
MainArgs == {[BaseArgs EXCEPT !.total_days = n] : n \in {1, 2}}

\* the caller starts on 2023-12-31
Init == InitAt({(19722 + 1) * TicksPerDay - 2})

UnknownPlanId == <<1999, 1, 1, 0>>
UnknownDate == <<1999, 1, 1>>
\* the completed flag and the notes of an update
MarkChoices == {<<TRUE, "">>, <<FALSE, "revised">>}

StoredPlanIds == {study_plans[i].plan_id : i \in 1..Len(study_plans)}

StoredDates ==
    UNION {{study_plans[i].sessions[j].date : j \in 1..Len(study_plans[i].sessions)} :
              i \in 1..Len(study_plans)}

PlanIdChoices ==
    StoredPlanIds \cup {UnknownPlanId} \cup (IF plan = None THEN {} ELSE {plan.plan_id})

DateChoices == StoredDates \cup {UnknownDate}

\* the last call was a load_plan that found the plan
Loaded == call.op = "load_plan" /\ call.ret # None

Next ==
    \/ calls < MaxCalls /\ (\E a \in MainArgs : GenerateBegin(a)) /\ UNCHANGED appVars
    \/ GenerateShort /\ UNCHANGED appVars
    \/ Tick /\ UNCHANGED appVars
    \/ plan # None /\ SavePlan(plan) /\ UNCHANGED appVars
    \/ Loaded /\ SavePlan(call.ret) /\ UNCHANGED appVars
    \/ (\E id \in PlanIdChoices : LoadPlan(id)) /\ UNCHANGED appVars
    \/ /\ calls < MaxCalls
       /\ \E id \in PlanIdChoices, d \in DateChoices, m \in MarkChoices :
              UpdateSessionProgress(id, d, m[1], m[2])
       /\ UNCHANGED appVars

Spec == Init /\ [][Next]_vars

(***************************************************************************)
(* The application (app.py): one browser session at a time works on the    *)
(* store through the pages "create", "view" and "dashboard".  A handler    *)
(* ends with a rerun of the script, which renders the page of view_mode.   *)
(***************************************************************************)
\* load_all_plans(): the stored list, [] when there is no state.json
LoadAllPlans == IF file_exists THEN study_plans ELSE << >>

\* render_dashboard_page: st.session_state.current_plan after the page is rendered
DashboardPlan(cp, plans) ==
    IF cp = None /\ plans # << >> THEN plans[1] ELSE cp

\* current_plan after the page of `mode` is rendered
Rendered(mode, cp, plans) == IF mode = "dashboard" THEN DashboardPlan(cp, plans) ELSE cp

\* a new browser session: the session state is initialised, state.json stays
AppNewSession ==
    /\ app_pc = "ready"
    /\ pc \in {"idle", "done", "raised"}
    /\ current_plan' = None
    /\ view_mode' = "create"
    /\ UNCHANGED <<app_pc, clock, calls, genVars, storeVars>>

\* the milestones tab: a milestone is achieved with this many sessions completed
IsAchieved(completed, milestone) == completed >= milestone.day

\* the three navigation buttons of the sidebar
AppNavigate(mode) ==
    /\ app_pc = "ready"
    /\ view_mode' = mode
    /\ current_plan' = Rendered(mode, current_plan, LoadAllPlans)
    /\ UNCHANGED <<app_pc, clock, calls, genVars, storeVars>>

\* the Generate button of the create page: generate_plan is called
AppGenerate(a) ==
    /\ app_pc = "ready"
    /\ view_mode = "create"
    /\ GenerateBegin(a)
    /\ app_pc' = "creating"
    /\ UNCHANGED <<current_plan, view_mode>>

\* generate_plan returned: the plan is saved and becomes the current plan
AppGenerated ==
    /\ app_pc = "creating"
    /\ pc = "done"
    /\ SavePlan(plan)
    /\ current_plan' = AsDict(plan)
    /\ app_pc' = "ready"
    /\ UNCHANGED view_mode

\* generate_plan raised: the except branch shows the error
AppGenerateFailed ==
    /\ app_pc = "creating"
    /\ pc = "raised"
    /\ app_pc' = "ready"
    /\ UNCHANGED <<current_plan, view_mode, clock, calls, genVars, storeVars>>

\* the View button of plan i on the view page
AppViewPlan(i) ==
    /\ app_pc = "ready"
    /\ view_mode = "view"
    /\ i \in 1..Len(LoadAllPlans)
    /\ view_mode' = "dashboard"
    /\ current_plan' = Rendered("dashboard", LoadAllPlans[i], LoadAllPlans)
    /\ UNCHANGED <<app_pc, clock, calls, genVars, storeVars>>

\* the Mark Complete button of session j of the dashboard's plan, shown for a
\* session the displayed plan holds as not completed; the page is then rerun
AppMarkComplete(j) ==
    /\ app_pc = "ready"
    /\ view_mode = "dashboard"
    /\ current_plan # None
    /\ j \in 1..Len(current_plan.sessions)
    /\ ~current_plan.sessions[j].completed
    /\ UpdateSessionProgress(current_plan.plan_id, current_plan.sessions[j].date, TRUE, "")
    /\ current_plan' = Rendered(view_mode, current_plan, LoadAllPlans')
    /\ UNCHANGED <<view_mode, app_pc>>

\* what the form of the create page submits: a plan of the shortest duration of
\* the slider, with the knowledge sliders untouched or all at 100
AppArgs ==
    {[BaseArgs EXCEPT !.total_days = slider_min_days, !.current_knowledge = k] :
        k \in {None, "A" :> 100 @@ "B" :> 100}}

ViewModes == {"create", "view", "dashboard"}

NextApp ==
    \/ calls < MaxCalls /\ \E a \in AppArgs : AppGenerate(a)
    \/ Generate /\ UNCHANGED appVars
    \/ AppGenerated
    \/ AppGenerateFailed
    \/ Tick /\ UNCHANGED appVars
    \/ AppNewSession
    \/ \E mode \in ViewModes : AppNavigate(mode)
    \/ \E i \in 1..MaxCalls : AppViewPlan(i)
    \/ calls < MaxCalls /\ \E j \in 1..MaxDays : AppMarkComplete(j)

SpecApp == Init /\ [][NextApp]_vars

(***************************************************************************)
(* The pure functions applied to arguments of bounded sets; call holds     *)
(* the arguments and the result.                                           *)
(***************************************************************************)
MaxDuration == 130

PureTopicLists == {<< >>, <<"A">>, <<"A", "B">>, <<"B", "A", "B">>, <<"A", "B", "C">>}
KnowledgeLevels == {0, 30, 71, 100}
PureKnowledgeMaps ==
    UNION {[S -> KnowledgeLevels] : S \in {{}, {"A"}, {"A", "B"}, {"A", "B", "C"}}}
PureWeakAreas == {<< >>, <<"B">>, <<"A", "C">>}

pureFrame == <<clock, calls, genVars, file_exists, study_plans, appVars>>

\* one application per behaviour
NoCallYet == call.op = "none"

ApplyCalculateTopicAllocation ==
    /\ NoCallYet
    /\ \E t \in PureTopicLists, n \in {0, 1, MaxDays, MaxTotalDays}, h \in {1, 12, 64},
          k \in PureKnowledgeMaps, w \in PureWeakAreas :
           /\ call' = [op |-> "_calculate_topic_allocation", topics |-> t, total_days |-> n,
                       daily_hours8 |-> h, current_knowledge |-> k, weak_areas |-> w,
                       ret |-> CalculateTopicAllocation(t, n, h, k, w)]
           /\ UNCHANGED pureFrame

ApplyCalculateBreaks ==
    /\ NoCallYet
    /\ \E d \in 0..MaxDuration :
           /\ call' = [op |-> "_calculate_breaks", duration_minutes |-> d,
                       ret |-> CalculateBreaks(d)]
           /\ UNCHANGED pureFrame

ApplyGetSessionDifficulty ==
    /\ NoCallYet
    /\ \E b \in DifficultyLevel, n \in 1..MaxTotalDays :
           \E d \in 1..n :
               /\ call' = [op |-> "_get_session_difficulty", base_difficulty |-> b, day |-> d,
                           total_days |-> n, ret |-> GetSessionDifficulty(b, d, n)]
               /\ UNCHANGED pureFrame

ApplyCreateMilestones ==
    /\ NoCallYet
    /\ \E n \in 1..MaxTotalDays :
           /\ call' = [op |-> "_create_milestones", total_days |-> n,
                       ret |-> CreateMilestones(<<"A", "B">>, n, "exam_prep")]
           /\ UNCHANGED pureFrame

MaxSelectDay == 5

SelectorKnowledgeMaps ==
    {<< >>, "A" :> 0 @@ "B" :> 99, "A" :> 40 @@ "B" :> 100, "A" :> 50 @@ "B" :> 50 @@ "C" :> 0}

\* the histories at the start of day d of the day loop: the selections of the
\* days before d, each made by the selector on the history left by the days before it
RECURSIVE HistoryAt(_, _, _)
HistoryAt(topics, allocation, d) ==
    IF d = 1
    THEN [topic_last_studied |-> [t \in SeqToSet(topics) |-> -999],
          topic_study_count |-> [t \in SeqToSet(topics) |-> 0]]
    ELSE LET h == HistoryAt(topics, allocation, d - 1)
             topic == SelectTopicForDay(topics, allocation, d - 1,
                                        h.topic_last_studied, h.topic_study_count).topic
         IN  [topic_last_studied |-> [h.topic_last_studied EXCEPT ![topic] = d - 1],
              topic_study_count |-> [h.topic_study_count EXCEPT ![topic] = @ + 1]]

\* the selector on day d of a plan, with the allocation and the history generate_plan
\* hands it
ApplySelectTopicForDay ==
    /\ NoCallYet
    /\ \E t \in PureTopicLists \ {<< >>}, n \in {MaxTotalDays, slider_max_days},
          h \in {12, slider_max_hours8}, k \in SelectorKnowledgeMaps,
          w \in {<< >>, <<"A">>, <<"B">>}, d \in 1..MaxSelectDay :
           LET allocation == CalculateTopicAllocation(t, n, h, k, w)
               hist == HistoryAt(t, allocation, d)
           IN  /\ allocation.raised = ""
               /\ call' = [op |-> "_select_topic_for_day", topics |-> t,
                           allocation |-> allocation, day |-> d,
                           last_studied |-> hist.topic_last_studied,
                           study_count |-> hist.topic_study_count,
                           ret |-> SelectTopicForDay(t, allocation, d, hist.topic_last_studied,
                                                     hist.topic_study_count).topic]
               /\ UNCHANGED pureFrame

\* "HH:00 - HH:00" slots of every start hour
ApplyEstimateFocusLevel ==
    /\ NoCallYet
    /\ \E hour \in 0..23, d \in 1..MaxTotalDays :
           /\ call' = [op |-> "_estimate_focus_level", time_slot |-> <<hour, hour + 1>>,
                       day |-> d, ret |-> EstimateFocusLevel(<<hour, hour + 1>>, d)]
           /\ UNCHANGED pureFrame

\* daily_hours of 0.125, 0.5, 1.5, 2.5, 3.0, 4.0 and 8.0 hours
ApplyGetOptimalTimeSlot ==
    /\ NoCallYet
    /\ \E p \in TimePreference, d \in 1..MaxSelectDay,
          h \in {1, 4, 12, 20, 24, 32, slider_max_hours8} :
           /\ call' = [op |-> "_get_optimal_time_slot", preference |-> p, day |-> d,
                       hours8 |-> h, ret |-> GetOptimalTimeSlot(p, d, h)]
           /\ UNCHANGED pureFrame

NextPure ==
    \/ ApplyCalculateTopicAllocation
    \/ ApplyCalculateBreaks
    \/ ApplyGetSessionDifficulty
    \/ ApplyCreateMilestones
    \/ ApplySelectTopicForDay
    \/ ApplyEstimateFocusLevel
    \/ ApplyGetOptimalTimeSlot

SpecPure == Init /\ [][NextPure]_vars

(***************************************************************************)
(* One generate_plan call at the ends of the create form's sliders: the    *)
(* longest plan at the most hours a day, on a weak topic not known at all  *)
(* and a topic all but known; and the same topics in the shortest plan.     *)
(***************************************************************************)
SliderArgs ==
    {[BaseArgs EXCEPT !.total_days = n, !.daily_hours8 = slider_max_hours8,
                      !.current_knowledge = "A" :> 0 @@ "B" :> 99,
                      !.weak_areas = <<"A">>] : n \in {slider_min_days, slider_max_days}}

NextLong ==
    \/ calls = 0 /\ (\E a \in SliderArgs : GenerateBegin(a)) /\ UNCHANGED appVars
    \/ Generate /\ UNCHANGED appVars
    \/ Tick /\ UNCHANGED appVars

SpecLong == InitGen /\ [][NextLong]_vars

(***************************************************************************)
(* Properties.                                                             *)
(***************************************************************************)
\* the arguments the specification calls valid
ValidArgs(a) == a.total_days > 0 /\ a.daily_hours8 > 0 /\ a.topics # << >>

RECURSIVE DatePlus(_, _)
DatePlus(dt, n) == IF n = 0 THEN dt ELSE DatePlus(NextCalendarDate(dt), n - 1)

RECURSIVE SumOver(_, _)
SumOver(f, S) ==
    IF S = {} THEN 0
    ELSE LET x == CHOOSE y \in S : TRUE IN f[x] + SumOver(f, S \ {x})

C4_InvalidArgsRejected ==
    (calls > 0 /\ ~ValidArgs(args)) => (pc # "done" /\ sessions = << >>)

\* C5: when all weights sum to zero the division is guarded: generate_plan does
\* not end in a ZeroDivisionError.
C5_ZeroWeightSumGuarded == raised # "ZeroDivisionError"

\* C8: for a topic list whose weights do not sum to zero (some topic has a
\* knowledge other than 100), the allocation has exactly the topics of the list
\* as keys and its entries sum to total_days * daily_hours.
C8_AllocationSumsToTotalHours ==
    (/\ call.op = "_calculate_topic_allocation"
     /\ \E i \in 1..Len(call.topics) :
           Get(call.current_knowledge, call.topics[i], 0) # 100)
    => /\ call.ret.raised = ""
       /\ DOMAIN call.ret.num = SeqToSet(call.topics)
       /\ 8 * SumOver(call.ret.num, DOMAIN call.ret.num)
              = call.ret.den * call.total_days * call.daily_hours8

\* an allocation of a list that repeats a topic, with two different shares
C8_Witness ==
    /\ call.op = "_calculate_topic_allocation"
    /\ call.topics = <<"B", "A", "B">>
    /\ call.ret.raised = ""
    /\ call.total_days = MaxTotalDays
    /\ call.ret.num["A"] > call.ret.num["B"]
    /\ call.ret.num["B"] > 0

BreakAfter(b) == [i \in 1..Len(b) |-> b[i].after_minutes]
AllShort(b) == \A i \in 1..Len(b) : b[i].duration_minutes = 5 /\ b[i].type = "short"

\* C9 as stated: a duration of 100 minutes gives 5-minute short breaks after 25, 50
\* and 75 minutes and none after 100; a duration of 25 minutes gives no break.
C9_BreaksAt25_50_75 ==
    call.op = "_calculate_breaks" =>
        /\ call.duration_minutes = 100 =>
              BreakAfter(call.ret) = <<25, 50, 75>> /\ AllShort(call.ret)
        /\ call.duration_minutes = 25 => call.ret = << >>

\* C9 as amended: a duration of 100 minutes gives 5-minute short breaks after 25, 55
\* and 85 minutes (after_minutes counts the earlier breaks) and none after 100; a
\* duration of 25 minutes gives no break.
C9_BreaksAt25_55_85 ==
    call.op = "_calculate_breaks" =>
        /\ call.duration_minutes = 100 =>
              BreakAfter(call.ret) = <<25, 55, 85>> /\ AllShort(call.ret)
        /\ call.duration_minutes = 25 => call.ret = << >>

C9_Witness ==
    /\ call.op = "_calculate_breaks"
    /\ call.duration_minutes = 100
    /\ Len(call.ret) = 3

\* C10: the session difficulty is the level max(0, b-1) when day/total_days < 0.3,
\* the level b when 0.3 <= day/total_days < 0.6 and the level min(3, b+1) from 0.6
\* on; for total_days = 30 and base intermediate, day 5 is beginner, day 15
\* intermediate, days 25 and 29 advanced.
C10_DifficultyLadder ==
    call.op = "_get_session_difficulty" =>
        LET ladder == <<"beginner", "intermediate", "advanced", "expert">>
            b == CHOOSE i \in 0..3 : ladder[i + 1] = call.base_difficulty
            d == call.day
            n == call.total_days
            level == IF 10 * d < 3 * n THEN (IF b = 0 THEN 0 ELSE b - 1)
                     ELSE IF 10 * d < 6 * n THEN b
                     ELSE (IF b = 3 THEN 3 ELSE b + 1)
        IN  /\ call.ret = ladder[level + 1]
            /\ (n = 30 /\ b = 1) =>
                  /\ d = 5 => call.ret = "beginner"
                  /\ d = 15 => call.ret = "intermediate"
                  /\ d = 25 => call.ret = "advanced"
                  /\ d = 29 => call.ret = "advanced"

\* day 3 of 10 days is exactly at the ratio 0.3: the base level applies
C10_Witness ==
    /\ call.op = "_get_session_difficulty"
    /\ call.base_difficulty = "intermediate"
    /\ call.day = 3
    /\ call.total_days = 10
    /\ call.ret = "intermediate"

\* the plan_id and the date of an update match a stored plan and one of its sessions
Matched(id, date) ==
    /\ file_exists
    /\ \E i \in 1..Len(study_plans) :
          /\ study_plans[i].plan_id = id
          /\ \E j \in 1..Len(study_plans[i].sessions) : study_plans[i].sessions[j].date = date

\* C2: update_session_progress on a plan_id that is not stored, or on a date that
\* is not among that plan's sessions, leaves the stored plans unchanged and does
\* not return what a successful update returns (True).
C2_NotFoundReported ==
    [][\A id \in PlanIdChoices, d \in DateChoices, m \in MarkChoices :
          (UpdateSessionProgress(id, d, m[1], m[2]) /\ ~Matched(id, d))
          => (study_plans' = study_plans /\ call'.ret # TRUE)]_vars

\* C3: update_session_progress on a stored plan_id and a date of that plan sets the
\* session's completed and notes as given and its completed_at to the time of the
\* call, and changes nothing else: not another field of that session, not another
\* session of the plan, not another field of the plan, not another plan, not the
\* order or number of plans and sessions.
C3_UpdateFrame ==
    [][\A id \in PlanIdChoices, d \in DateChoices, m \in MarkChoices :
          (UpdateSessionProgress(id, d, m[1], m[2]) /\ Matched(id, d))
          => LET i == CHOOSE k \in 1..Len(study_plans) :
                         /\ study_plans[k].plan_id = id
                         /\ \A l \in 1..(k - 1) : study_plans[l].plan_id # id
                 old == study_plans[i]
                 new == study_plans'[i]
                 j == CHOOSE k \in 1..Len(old.sessions) :
                         /\ old.sessions[k].date = d
                         /\ \A l \in 1..(k - 1) : old.sessions[l].date # d
             IN  /\ call'.ret = TRUE
                 /\ Len(study_plans') = Len(study_plans)
                 /\ \A k \in 1..Len(study_plans) : k # i => study_plans'[k] = study_plans[k]
                 /\ DOMAIN new = DOMAIN old
                 /\ \A f \in DOMAIN old \ {"sessions"} : new[f] = old[f]
                 /\ Len(new.sessions) = Len(old.sessions)
                 /\ \A k \in 1..Len(old.sessions) : k # j => new.sessions[k] = old.sessions[k]
                 /\ DOMAIN new.sessions[j] = DOMAIN old.sessions[j]
                 /\ \A f \in DOMAIN old.sessions[j] \ {"completed", "notes", "completed_at"} :
                       new.sessions[j][f] = old.sessions[j][f]
                 /\ new.sessions[j].completed = m[1]
                 /\ new.sessions[j].notes = m[2]
                 /\ new.sessions[j].completed_at = IsoFormat(clock)]_vars

\* the second session of the second stored plan was marked, with notes, and
\* nothing else in the store carries a mark
C3_Witness ==
    /\ call.op = "update_session_progress"
    /\ Len(study_plans) = 2
    /\ Len(study_plans[2].sessions) = 2
    /\ study_plans[2].sessions[2].notes = "revised"
    /\ study_plans[2].sessions[2].completed_at # None
    /\ study_plans[2].sessions[1].completed_at = None
    /\ \A j \in 1..Len(study_plans[1].sessions) : study_plans[1].sessions[j].completed_at = None

\* C6: load_plan(plan.plan_id) right after save_plan(plan) returns a plan equal to
\* the saved one in every field, the sessions and their breaks in order, whatever
\* else the store holds.
C6_SaveLoadRoundTrip ==
    [][\A id \in PlanIdChoices :
          (/\ call.op = "save_plan"
           /\ call.ret = TRUE
           /\ id = call.plan.plan_id
           /\ LoadPlan(id))
          => call'.ret = call.plan]_vars

\* the caller's plan, with sessions that have breaks, came back from a store of two
C6_Witness ==
    /\ call.op = "load_plan"
    /\ plan # None
    /\ call.ret = plan
    /\ Len(study_plans) = 2
    /\ study_plans[2].plan_id = plan.plan_id
    /\ Len(plan.sessions) = 2
    /\ Len(plan.sessions[2].breaks) > 0

\* the plans save_plan can be called on: the plan generate_plan returned and the
\* plan load_plan returned
SaveChoices ==
    (IF plan = None THEN {} ELSE {plan}) \cup (IF Loaded THEN {call.ret} ELSE {})

UniquePlanIds ==
    \A i \in 1..Len(study_plans), j \in 1..Len(study_plans) :
        i # j => study_plans[i].plan_id # study_plans[j].plan_id

\* C7: save_plan replaces, at its position, the stored plan of the same plan_id and
\* otherwise appends the plan at the end, every other stored plan staying as it
\* is; update_session_progress changes no plan_id; so no two stored plans ever
\* share a plan_id.
C7_UpsertUniqueIds ==
    /\ []UniquePlanIds
    /\ [][\A p \in SaveChoices :
             SavePlan(p) =>
                IF \E i \in 1..Len(study_plans) : study_plans[i].plan_id = p.plan_id
                THEN /\ Len(study_plans') = Len(study_plans)
                     /\ \A i \in 1..Len(study_plans) :
                           study_plans'[i] = IF study_plans[i].plan_id = p.plan_id
                                             THEN AsDict(p) ELSE study_plans[i]
                ELSE study_plans' = Append(study_plans, AsDict(p))]_vars
    /\ [][Len(study_plans') >= Len(study_plans)
          /\ \A i \in 1..Len(study_plans) :
                study_plans'[i].plan_id = study_plans[i].plan_id]_vars

\* the first of two stored plans was saved again, over its marked version
C7_Witness ==
    /\ call.op = "save_plan"
    /\ Len(study_plans) = 2
    /\ study_plans[1] = AsDict(call.plan)
    /\ calls = MaxCalls
    /\ \A j \in 1..Len(study_plans[1].sessions) : study_plans[1].sessions[j].completed_at = None

MilestoneDaysOf(ms) == [i \in 1..Len(ms) |-> ms[i].day]
MilestoneNamesOf(ms) == [i \in 1..Len(ms) |-> ms[i].name]

\* C11: for every total_days >= 1, _create_milestones gives exactly four milestones,
\* named in this order Foundation Complete, Halfway Champion, Advanced Mastery and
\* Goal Achieved, whose days are the largest integers not above total_days/4,
\* total_days/2 and 3*total_days/4, and total_days; for total_days = 20 the days
\* are 5, 10, 15, 20.
C11_FourMilestones ==
    call.op = "_create_milestones" =>
        LET n == call.total_days
            days == MilestoneDaysOf(call.ret)
        IN  /\ Len(call.ret) = 4
            /\ MilestoneNamesOf(call.ret) =
                  <<"Foundation Complete", "Halfway Champion", "Advanced Mastery", "Goal Achieved">>
            /\ 4 * days[1] <= n /\ n < 4 * (days[1] + 1)
            /\ 2 * days[2] <= n /\ n < 2 * (days[2] + 1)
            /\ 4 * days[3] <= 3 * n /\ 3 * n < 4 * (days[3] + 1)
            /\ days[4] = n
            /\ n = 20 => days = <<5, 10, 15, 20>>

\* the milestones of a plan whose quarters are not whole days
C11_Witness ==
    /\ call.op = "_create_milestones"
    /\ call.total_days = 30
    /\ MilestoneDaysOf(call.ret) = <<7, 15, 22, 30>>

NeverStudied(count) == {t \in DOMAIN count : count[t] = 0}

\* C12: when exactly one topic has study_count 0 (and every other topic has been
\* studied), the selector returns that topic, whatever the day and the allocation.
C12_UnstudiedTopicSelected ==
    (call.op = "_select_topic_for_day" /\ Cardinality(NeverStudied(call.study_count)) = 1)
    => call.ret \in NeverStudied(call.study_count)

FreshSession(s) == s.completed = FALSE /\ s.notes = "" /\ s.completed_at = None

\* C13: in every step of a generate_plan call the sessions list either stays as it
\* is or grows by one session appended at its end (the sessions already appended
\* are neither modified nor removed), every session in it has completed = false,
\* notes = "" and completed_at = null, and the plan returned holds exactly these
\* sessions.
C13_SessionsAppendOnly ==
    [][/\ \A i \in 1..Len(sessions') : FreshSession(sessions'[i])
       /\ \/ sessions' = sessions
          \/ /\ Len(sessions') = Len(sessions) + 1
             /\ SubSeq(sessions', 1, Len(sessions)) = sessions
       /\ pc' = "done" => plan'.sessions = sessions']_vars

\* a plan of MaxDays sessions was returned
C13_Witness ==
    /\ pc = "done"
    /\ Len(plan.sessions) = MaxDays
    /\ \A i \in 1..MaxDays : FreshSession(plan.sessions[i])

\* round(n / d) for n >= 0 and d > 0: to the nearest integer, a half to the even one
RoundNearest(n, d) ==
    LET q == n \div d
        r == n % d
    IN  IF 2 * r < d THEN q
        ELSE IF 2 * r > d THEN q + 1
        ELSE IF q % 2 = 0 THEN q ELSE q + 1

\* C14: every session of a plan returned for daily_hours > 0 has the same
\* duration_minutes, daily_hours * 60 rounded to the nearest integer.
C14_DurationRounded ==
    (pc = "done" /\ args.daily_hours8 > 0) =>
        \A i \in 1..Len(plan.sessions) :
            plan.sessions[i].duration_minutes = RoundNearest(args.daily_hours8 * 60, 8)

\* weight * 20 of a topic as C15 states it
ClaimedWeight20(t, knowledge_map, weak) ==
    LET knowledge == IF t \in DOMAIN knowledge_map THEN knowledge_map[t] ELSE 0
    IN  (100 - knowledge)
        * (IF \E i \in 1..Len(weak) : weak[i] = t THEN 3 ELSE 2)
        * (IF knowledge >= 30 /\ knowledge <= 70 THEN 13 ELSE 10)

\* C15: when the allocation calculator returns, the allocation of each topic is
\* weight / sum(weights) * total_days * daily_hours with weight = (100 - knowledge)
\* * (1.5 if the topic is a weak area, else 1.0) * (1.3 if 30 <= knowledge <= 70,
\* else 1.0), knowledge being 0 for a topic absent from the knowledge map; the
\* knowledge map and the weak-areas list (and every other argument) are unchanged.
C15_AllocationFormula ==
    [][Allocate =>
          /\ args' = args
          /\ pc' = "sessions" =>
                LET T == SeqToSet(args.topics)
                    w == [t \in T |-> ClaimedWeight20(t, args.current_knowledge, args.weak_areas)]
                    alloc == topic_allocation'
                    \* the denominator counts eighths, as daily_hours does
                    den8 == alloc.den \div 8
                IN  /\ DOMAIN alloc.num = T
                    /\ \A t \in T :
                          /\ alloc.den = 8 * den8
                          /\ alloc.num[t] * SumOver(w, T)
                                = den8 * w[t] * args.total_days * args.daily_hours8]_vars

\* an allocation where a weak area and both ends of the range 30..70 count
C15_Witness ==
    /\ pc = "sessions"
    /\ args.topics = <<"B", "A", "B">>
    /\ args.current_knowledge = ("A" :> 30 @@ "B" :> 70)
    /\ args.weak_areas = <<"B">>
    /\ args.total_days = MaxDays
    /\ 1170 * topic_allocation.num["A"] = 1820 * topic_allocation.num["B"]
    /\ topic_allocation.num["B"] > 0

\* 10 * den times the score C16 states for topic t in the selector call held by
\* `call`, the allocation of t being num[t] / den hours
ClaimedScore(t) ==
    LET days_since == call.day - call.last_studied[t]
        count == call.study_count[t]
        gaps == {IF days_since >= iv THEN days_since - iv ELSE iv - days_since :
                    iv \in {1, 3, 7, 14, 30}}
        spaced_score == IF count = 0 THEN 1000
                        ELSE 100 - (CHOOSE g \in gaps : \A e \in gaps : g <= e)
    IN  2 * (2 * call.allocation.num[t] - 3 * count * call.allocation.den)
        + 4 * spaced_score * call.allocation.den
        + 2 * days_since * call.allocation.den

FirstIndex(s, x) == CHOOSE i \in 1..Len(s) : s[i] = x /\ \A j \in 1..(i - 1) : s[j] # x

C17_HistoryFrame ==
    [][/\ pc' = "day_loop" =>
             /\ SumOver(topic_study_count', DOMAIN topic_study_count') = day'
             /\ \A t \in DOMAIN topic_study_count' :
                   topic_last_studied'[t] = -999 <=> topic_study_count'[t] = 0
       /\ (DayIteration /\ pc' = "day_loop") =>
             LET d == day + 1
                 chosen == sessions'[d].topic
             IN  /\ topic_allocation' = topic_allocation
                 /\ chosen \in DOMAIN topic_study_count
                 /\ topic_last_studied'[chosen] = d
                 /\ topic_study_count'[chosen] = topic_study_count[chosen] + 1
                 /\ \A t \in DOMAIN topic_study_count \ {chosen} :
                       /\ topic_last_studied'[t] = topic_last_studied[t]
                       /\ topic_study_count'[t] = topic_study_count[t]
                 /\ DOMAIN topic_study_count' = DOMAIN topic_study_count
                 /\ DOMAIN topic_last_studied' = DOMAIN topic_last_studied]_vars

\* after MaxDays days of a plan of two topics both have been studied
C17_Witness ==
    /\ pc = "day_loop"
    /\ day = MaxDays
    /\ DOMAIN topic_study_count = {"A", "B"}
    /\ topic_study_count["A"] > 0
    /\ topic_study_count["B"] > 0
    /\ topic_last_studied["A"] # topic_last_studied["B"]

\* the length of the break after the k-th work block
ClaimedBreak(k) == IF k % 4 = 0 THEN 15 ELSE 5

\* the session minute at which the k-th full work block ends: k blocks of 25
\* minutes and the k - 1 breaks between them
BlockEnd(k) == 25 * k + 5 * (k - 1) + 10 * ((k - 1) \div 4)

\* C18: the breaks of a session are, in order, one after each 25-minute work block
\* that ends before the session duration is reached, and no other: the break after
\* the k-th block is placed at the minute the block ends, lasts 15 minutes with
\* type "long" when k is a multiple of 4 and 5 minutes with type "short" otherwise;
\* a block that reaches the end of the session has no break after it.
C18_BreakPattern ==
    call.op = "_calculate_breaks" =>
        LET D == call.duration_minutes
            b == call.ret
        IN  /\ Len(b) = Cardinality({k \in 1..D : BlockEnd(k) < D})
            /\ \A k \in 1..Len(b) :
                  /\ b[k].after_minutes = BlockEnd(k)
                  /\ b[k].after_minutes < D
                  /\ b[k].duration_minutes = ClaimedBreak(k)
                  /\ b[k].type = (IF k % 4 = 0 THEN "long" ELSE "short")

\* a session long enough for the long break after the fourth block
C18_Witness ==
    /\ call.op = "_calculate_breaks"
    /\ Len(call.ret) = 4
    /\ call.ret[4] = [after_minutes |-> 115, duration_minutes |-> 15, type |-> "long"]

\* the focus C19 states for a start hour, before the day is taken into account
ClaimedFocus(h) ==
    IF h \in 9..11 \/ h \in 15..17 THEN "High"
    ELSE IF h \in 6..8 \/ h \in 12..14 \/ h \in 18..20 THEN "Medium"
    ELSE "Low"

\* C19: the focus estimate for start hour h is High for 9 <= h <= 11 and 15 <= h <=
\* 17, Medium for 6 <= h < 9, 11 < h < 15 and 17 < h <= 20, and Low otherwise; from
\* day 21 on a High is replaced by Medium-High, and Medium and Low are the same on
\* every day.
C19_FocusByHourAndDay ==
    call.op = "_estimate_focus_level" =>
        LET h == call.time_slot[1]
        IN  call.ret = IF call.day > 20 /\ ClaimedFocus(h) = "High" THEN "Medium-High"
                       ELSE ClaimedFocus(h)

\* a High hour on day 21
C19_Witness ==
    /\ call.op = "_estimate_focus_level"
    /\ call.time_slot[1] = 17
    /\ call.day = 21
    /\ call.ret = "Medium-High"

\* the start hour C20 states for a preference and a day
ClaimedStartHour(preference, d) ==
    CASE preference = "morning" -> 6
      [] preference = "afternoon" -> 14
      [] preference = "evening" -> 18
      [] preference = "night" -> 21
      [] preference = "flexible" -> (CASE d % 3 = 0 -> 7 [] d % 3 = 1 -> 14 [] d % 3 = 2 -> 18)

\* C20: for every time preference, day and daily_hours > 0 the time slot starts at
\* the hour of the preference (flexible: 07:00, 14:00 or 18:00 by day mod 3), ends
\* at the start hour plus the whole hours of daily_hours, and the end hour is at
\* most 24.
C20_TimeSlotWithinDay ==
    call.op = "_get_optimal_time_slot" =>
        /\ call.ret[1] = ClaimedStartHour(call.preference, call.day)
        /\ call.ret[2] = call.ret[1] + call.hours8 \div 8
        /\ call.ret[2] <= 24

\* C21: when the dashboard is opened with no current plan and the store holds at
\* least one plan, the plan it loads as the current plan is the most recently
\* appended plan of the store.
C21_DashboardLoadsMostRecent ==
    [][(AppNavigate("dashboard") /\ current_plan = None /\ LoadAllPlans # << >>)
           => current_plan' = LoadAllPlans[Len(LoadAllPlans)]]_vars

\* the topics of the first n sessions generated so far
FirstTopics(n) == [i \in 1..Min2(n, Len(sessions)) |-> sessions[i].topic]

\* C22: for valid arguments with total_days at least the number of distinct topics,
\* the sessions of the first days (as many days as there are distinct topics) have
\* pairwise distinct topics, and every topic of the list is the topic of at least
\* one session of the plan returned.
C22_EveryTopicCovered ==
    LET T == {args.topics[i] : i \in 1..Len(args.topics)}
        first == FirstTopics(Cardinality(T))
    IN  (pc \notin {"idle", "raised"} /\ ValidArgs(args) /\ args.total_days >= Cardinality(T)) =>
            /\ \A i, j \in DOMAIN first : i < j => first[i] # first[j]
            /\ pc = "done" =>
                   \A t \in T : \E i \in 1..Len(plan.sessions) : plan.sessions[i].topic = t

\* C23: for every session duration the breaks returned have strictly increasing
\* after_minutes, and each break ends (after_minutes + duration_minutes) strictly
\* before the session's duration_minutes: a session never ends with a break.
C23_BreaksInsideSession ==
    call.op = "_calculate_breaks" =>
        LET b == call.ret
        IN  /\ \A i \in 1..Len(b) - 1 : b[i].after_minutes < b[i + 1].after_minutes
            /\ \A i \in 1..Len(b) :
                   b[i].after_minutes + b[i].duration_minutes < call.duration_minutes

\* C24: after any sequence of save_plan and update_session_progress calls, every
\* stored session has completed_at non-null if and only if its completed is true.
C24_CompletedAtIffCompleted ==
    \A i \in 1..Len(study_plans) : \A j \in 1..Len(study_plans[i].sessions) :
        LET s == study_plans[i].sessions[j]
        IN  (s.completed_at # None) <=> s.completed

\* the plan of the store with the plan_id of p, None when there is none
StoredPlan(p) ==
    LET i == FindPlan(LoadAllPlans, p.plan_id)
    IN  IF i = 0 THEN None ELSE LoadAllPlans[i]

\* C25: whenever the dashboard is shown, the plan it displays agrees with the
\* stored plan of the same plan_id on the completed flag of every session; in
\* particular after Mark Complete the displayed session is completed.
C25_DashboardAgreesWithStore ==
    (app_pc = "ready" /\ view_mode = "dashboard" /\ current_plan # None) =>
        LET stored == StoredPlan(current_plan)
        IN  /\ stored # None
            /\ Len(stored.sessions) = Len(current_plan.sessions)
            /\ \A j \in 1..Len(stored.sessions) :
                   current_plan.sessions[j].completed = stored.sessions[j].completed

\* C26: for every total_days >= 1 each of the four milestone days is a day of the
\* plan (from 1 to total_days), the milestone days strictly increase, and no
\* milestone is achieved while zero sessions are completed.
C26_MilestoneDaysInPlan ==
    call.op = "_create_milestones" =>
        LET days == MilestoneDaysOf(call.ret)
        IN  /\ \A i \in 1..Len(days) : days[i] \in 1..call.total_days
            /\ \A i \in 1..Len(days) - 1 : days[i] < days[i + 1]
            /\ \A i \in 1..Len(call.ret) : ~IsAchieved(0, call.ret[i])

\* C27: a plan returned for valid arguments has floor(total_days / 7) weekly
\* reviews, the k-th is labelled Week k, and its date is the date of the plan's
\* session of day 7k.
C27_WeeklyReviewOnSessionDay ==
    (pc = "done" /\ ValidArgs(args)) =>
        /\ Len(plan.weekly_reviews) = plan.total_days \div 7
        /\ \A k \in 1..Len(plan.weekly_reviews) :
               /\ plan.weekly_reviews[k][1] = k
               /\ 7 * k <= Len(plan.sessions)
               /\ plan.weekly_reviews[k][2] = plan.sessions[7 * k].date

\* C28: every session generate_plan produces starts at 6, 7, 14, 18 or 21 o'clock
\* and has the estimated focus level Medium or Low (never High or Medium-High),
\* whatever the time preference, the day and the daily hours.
C28_FocusMediumOrLow ==
    \A i \in 1..Len(sessions) :
        /\ sessions[i].time_slot[1] \in {6, 7, 14, 18, 21}
        /\ sessions[i].estimated_focus_level \in {"Medium", "Low"}

\* a plan of more than 20 days returned for the flexible preference: its sessions
\* start at 7, 14 and 18 o'clock and are all Medium
C28_Witness ==
    /\ pc = "done"
    /\ Len(plan.sessions) > 20
    /\ args.time_preference = "flexible"
    /\ {plan.sessions[i].time_slot[1] : i \in 1..Len(plan.sessions)} = {7, 14, 18}
    /\ \A i \in 1..Len(plan.sessions) : plan.sessions[i].estimated_focus_level = "Medium"
====
